---------------------------- MODULE Spec2Model ----------------------------
(***************************************************************************)
(* SpeedEstimator: RPM estimation from a wrapping encoder pulse counter    *)
(* and the wrapping micros() clock (src/SpeedEstimator.h, .cpp).           *)
(*                                                                         *)
(* Integers keep a fixed width (TimeBits for unsigned long, PulseBits for  *)
(* int).  float and double values are binary floating point numbers        *)
(* m * 2^e with a significand of FloatBits resp. DoubleBits bits, rounded  *)
(* to nearest, ties to even, after every operation, with +-inf and NaN.    *)
(* The exponent range is not bounded and zero carries no sign.             *)
(***************************************************************************)
EXTENDS Integers, FiniteSets, TLC

(***************************************************************************)
(* Scale of the model.                                                     *)
(***************************************************************************)
TimeBits == 21      \* width W of unsigned long (micros() wraps mod 2^W)
PulseBits == 10     \* width P of int (the pulse counter)
FloatBits == 14     \* significand bits of float
DoubleBits == 14    \* significand bits of double (equal to float on AVR)
MaxCalls == 2       \* estimateSpeed calls explored per run

Pow2(n) == 2 ^ n
TimeMod == Pow2(TimeBits)
PulseMod == Pow2(PulseBits)
MaxSigned == Pow2(PulseBits - 1) - 1
MinSigned == 0 - Pow2(PulseBits - 1)

(***************************************************************************)
(* Floating point values.                                                  *)
(***************************************************************************)
Abs(n) == IF n < 0 THEN 0 - n ELSE n
Sgn(n) == IF n < 0 THEN 0 - 1 ELSE IF n > 0 THEN 1 ELSE 0

\* The number of bits of a, for 0 <= a < 2^31.
BitLen2(a) == IF a < 2 THEN a ELSE 2
BitLen4(a) == IF a < 4 THEN BitLen2(a) ELSE 2 + BitLen2(a \div 4)
BitLen8(a) == IF a < 16 THEN BitLen4(a) ELSE 4 + BitLen4(a \div 16)
BitLen16(a) == IF a < 256 THEN BitLen8(a) ELSE 8 + BitLen8(a \div 256)
BitLen(a) == IF a < 65536 THEN BitLen16(a) ELSE 16 + BitLen16(a \div 65536)

\* The number of trailing zero bits of a, for 0 < a < 2^31.
Tz1(a) == IF a % 2 = 0 THEN 1 ELSE 0
Tz2(a) == IF a % 4 = 0 THEN 2 + Tz1(a \div 4) ELSE Tz1(a)
Tz4(a) == IF a % 16 = 0 THEN 4 + Tz2(a \div 16) ELSE Tz2(a)
Tz8(a) == IF a % 256 = 0 THEN 8 + Tz4(a \div 256) ELSE Tz4(a)
TrailingZeros(a) == IF a % 65536 = 0 THEN 16 + Tz8(a \div 65536) ELSE Tz8(a)

NaN == [k |-> "nan", m |-> 0, e |-> 0]
Inf(s) == [k |-> "inf", m |-> s, e |-> 0]
Zero == [k |-> "fin", m |-> 0, e |-> 0]

\* The canonical form of m * 2^e: an odd significand, or zero.
Norm(m, e) ==
    IF m = 0 THEN Zero
    ELSE LET z == TrailingZeros(Abs(m))
         IN  [k |-> "fin", m |-> Sgn(m) * (Abs(m) \div Pow2(z)), e |-> e + z]

\* m * 2^e (plus, when sticky, a nonzero amount below one unit of m, away
\* from zero) rounded to p significand bits, to nearest, ties to even.
RoundME(p, m, e, sticky) ==
    LET a == Abs(m)
        len == BitLen(a)
    IN  IF len <= p THEN Norm(m, e)
        ELSE LET drop == len - p
                 q == a \div Pow2(drop)
                 r == a % Pow2(drop)
                 half == Pow2(drop - 1)
                 up == \/ r > half
                       \/ r = half /\ sticky
                       \/ r = half /\ ~sticky /\ q % 2 = 1
                 q2 == IF up THEN q + 1 ELSE q
             IN  Norm(Sgn(m) * q2, e + drop)

IsFinite(x) == x.k = "fin"
IsZero(x) == x.k = "fin" /\ x.m = 0
SignOf(x) == Sgn(x.m)

\* Conversion of a floating point value to p significand bits.
Cast(p, x) == IF x.k = "fin" THEN RoundME(p, x.m, x.e, FALSE) ELSE x

\* Conversion of an integer to floating point.
FromInt(p, n) == RoundME(p, n, 0, FALSE)

Neg(x) == [x EXCEPT !.m = 0 - x.m]

FMul(p, x, y) ==
    IF x.k = "nan" \/ y.k = "nan" THEN NaN
    ELSE IF x.k = "inf" \/ y.k = "inf"
         THEN IF IsZero(x) \/ IsZero(y) THEN NaN
              ELSE Inf(SignOf(x) * SignOf(y))
    ELSE RoundME(p, x.m * y.m, x.e + y.e, FALSE)

\* <<quotient, remainder>> of a * 2^n by d, for 0 < a, d < 2^15, in two
\* stages so that no intermediate value exceeds 2^30.
DivShifted(a, d, n) ==
    LET n1 == IF n + BitLen(a) <= 30 THEN n ELSE 30 - BitLen(a)
        n2 == n - n1
        q1 == (a * Pow2(n1)) \div d
        r1 == (a * Pow2(n1)) % d
    IN  <<q1 * Pow2(n2) + (r1 * Pow2(n2)) \div d, (r1 * Pow2(n2)) % d>>

FDiv(p, x, y) ==
    IF x.k = "nan" \/ y.k = "nan" THEN NaN
    ELSE IF x.k = "inf"
         THEN IF y.k = "inf" THEN NaN
              ELSE Inf(SignOf(x) * (IF SignOf(y) < 0 THEN 0 - 1 ELSE 1))
    ELSE IF y.k = "inf" THEN Zero
    ELSE IF IsZero(y) THEN IF IsZero(x) THEN NaN ELSE Inf(SignOf(x))
    ELSE IF IsZero(x) THEN Zero
    ELSE LET a == Abs(x.m)
             d == Abs(y.m)
             want == p + 2 + BitLen(d) - BitLen(a)
             n == IF want < 1 THEN 1 ELSE want
             qr == DivShifted(a, d, n)
         IN  RoundME(p, SignOf(x) * SignOf(y) * qr[1], x.e - y.e - n,
                     qr[2] # 0)

\* x + y for finite x, y with x.e >= y.e.
AddAligned(p, x, y) ==
    LET shift == x.e - y.e
        room == p + 3 - BitLen(Abs(x.m))
    IN  IF IsZero(x) THEN Cast(p, y)
        ELSE IF IsZero(y) THEN Cast(p, x)
        ELSE IF shift <= room \/ shift <= 14
             THEN RoundME(p, x.m * Pow2(shift) + y.m, y.e, FALSE)
        ELSE LET big == Abs(x.m) * Pow2(room)
                 cut == shift - room
                 ya == Abs(y.m)
                 low == IF cut >= BitLen(ya) THEN 0 ELSE ya \div Pow2(cut)
                 mag == IF SignOf(x) = SignOf(y) THEN big + low
                        ELSE big - low - 1
             IN  RoundME(p, SignOf(x) * mag, x.e - room, TRUE)

FAdd(p, x, y) ==
    IF x.k = "nan" \/ y.k = "nan" THEN NaN
    ELSE IF x.k = "inf"
         THEN IF y.k = "inf" /\ y.m # x.m THEN NaN ELSE x
    ELSE IF y.k = "inf" THEN y
    ELSE IF x.e >= y.e THEN AddAligned(p, x, y) ELSE AddAligned(p, y, x)

\* x <= 0
LeqZero(x) == (x.k = "fin" /\ x.m <= 0) \/ (x.k = "inf" /\ x.m < 0)


(***************************************************************************)
(* Fixed-width integer arithmetic.                                         *)
(***************************************************************************)
\* unsigned long: arithmetic modulo 2^TimeBits.
WrapUnsigned(n) == n % TimeMod

\* The int congruent to n modulo 2^PulseBits (two's complement).
WrapSigned(n) == ((n + Pow2(PulseBits - 1)) % PulseMod) - Pow2(PulseBits - 1)

InIntRange(n) == MinSigned <= n /\ n <= MaxSigned

(***************************************************************************)
(* Conversions between float and double, and the literals of the code.     *)
(***************************************************************************)
ToDouble(x) == Cast(DoubleBits, x)
ToFloat(x) == Cast(FloatBits, x)

MicrosPerSecond == 1000000
SecondsPerMinute == 60
Lit1e6 == FromInt(DoubleBits, MicrosPerSecond)
Lit60 == FromInt(DoubleBits, SecondsPerMinute)
Lit1 == FromInt(DoubleBits, 1)
Lit0p7265 == FDiv(DoubleBits, FromInt(DoubleBits, 7265), FromInt(DoubleBits, 10000))
Lit0p1367 == FDiv(DoubleBits, FromInt(DoubleBits, 1367), FromInt(DoubleBits, 10000))

(***************************************************************************)
(* The steps of SpeedEstimator::estimateSpeed.                             *)
(***************************************************************************)
\* Mutant: the difference taken in a signed long, without wrapping.
DeltaTimeMicros_signed(currTime, prevTime) == currTime - prevTime

\* unsigned long deltaTimeMicros = currTime - mPrevTime;
DeltaTimeMicros(currTime, prevTime) == WrapUnsigned(currTime - prevTime)

\* float deltaTime = ((float)deltaTimeMicros) / 1.0e6;
DeltaTime(deltaTimeMicros) ==
    ToFloat(FDiv(DoubleBits, ToDouble(FromInt(FloatBits, deltaTimeMicros)), Lit1e6))

\* Mutant: the guard written deltaTime < 0.
NoOpSample_strict(deltaTime) ==
    (deltaTime.k = "fin" /\ deltaTime.m < 0) \/ (deltaTime.k = "inf" /\ deltaTime.m < 0)

\* if (deltaTime <= 0) return mSpeedFilt;
NoOpSample(deltaTime) == LeqZero(deltaTime)

\* int pulseDiff = pulsesCount - mPrevNumPulses;
\* The subtraction is done in int.  When the difference does not fit, the
\* signed overflow is undefined: a build either wraps it (a subtract
\* instruction of int width) or carries the unwrapped difference on (the
\* operands widened before the conversion to float).
PulseDiffOutcomes(pulsesCount, prevNumPulses) ==
    IF InIntRange(pulsesCount - prevNumPulses)
    THEN {pulsesCount - prevNumPulses}
    ELSE {WrapSigned(pulsesCount - prevNumPulses), pulsesCount - prevNumPulses}

\* Mutant: the pulse difference taken as a magnitude.
RawVelocity_unsigned(pulseDiff, deltaTime) ==
    FDiv(FloatBits, FromInt(FloatBits, Abs(pulseDiff)), deltaTime)

\* float velocity = ((float)pulseDiff) / deltaTime;
RawVelocity(pulseDiff, deltaTime) ==
    FDiv(FloatBits, FromInt(FloatBits, pulseDiff), deltaTime)

\* Mutant: multiplied by the gear ratio instead of its inverse.
ToRPM_timesGear(velocity, ppr, gearRatio) ==
    ToFloat(FMul(DoubleBits,
                 FMul(DoubleBits,
                      ToDouble(FDiv(FloatBits, velocity, ppr)),
                      ToDouble(gearRatio)),
                 Lit60))

\* Mutant: an invalid configuration yields a zero velocity.
ToRPM_guarded(velocity, ppr, gearRatio) ==
    IF IsZero(ppr) \/ IsZero(gearRatio) THEN Zero
    ELSE ToFloat(FMul(DoubleBits,
                      FMul(DoubleBits,
                           ToDouble(FDiv(FloatBits, velocity, ppr)),
                           FDiv(DoubleBits, Lit1, ToDouble(gearRatio))),
                      Lit60))

\* velocity = (velocity / mPpr) * (1.0 / mGearRatio) * 60.0;
ToRPM(velocity, ppr, gearRatio) ==
    ToFloat(FMul(DoubleBits,
                 FMul(DoubleBits,
                      ToDouble(FDiv(FloatBits, velocity, ppr)),
                      FDiv(DoubleBits, Lit1, ToDouble(gearRatio))),
                 Lit60))

\* Mutant: mSpeedPrev overwritten before the filter reads it.
LowPass_lagNew(speedFilt, velocity, speedPrev) ==
    ToFloat(FAdd(DoubleBits,
                 FAdd(DoubleBits,
                      FMul(DoubleBits, Lit0p7265, ToDouble(speedFilt)),
                      FMul(DoubleBits, Lit0p1367, ToDouble(velocity))),
                 FMul(DoubleBits, Lit0p1367, ToDouble(velocity))))

\* mSpeedFilt = 0.7265 * mSpeedFilt + 0.1367 * velocity + 0.1367 * mSpeedPrev;
LowPass(speedFilt, velocity, speedPrev) ==
    ToFloat(FAdd(DoubleBits,
                 FAdd(DoubleBits,
                      FMul(DoubleBits, Lit0p7265, ToDouble(speedFilt)),
                      FMul(DoubleBits, Lit0p1367, ToDouble(velocity))),
                 FMul(DoubleBits, Lit0p1367, ToDouble(speedPrev))))

\* mSpeedPrev = velocity;
NextSpeedPrev(velocity, speedPrev) == velocity

\* mPrevNumPulses = pulsesCount;
CommitPulses(pulsesCount, prevNumPulses) == pulsesCount

\* Mutant: the dropped sample advances the stored pulse count.
DroppedPulses_advance(pulsesCount, prevNumPulses) == pulsesCount

\* The early return of a dropped sample leaves mPrevNumPulses as it is.
DroppedPulses(pulsesCount, prevNumPulses) == prevNumPulses

\* Mutant: the timestamp is not committed.
CommitTime_stale(currTime, prevTime) == prevTime

\* mPrevTime = currTime;
CommitTime(currTime, prevTime) == currTime

(***************************************************************************)
(* State.                                                                  *)
(***************************************************************************)
VARIABLES
    now,             \* the last reading of micros()
    pos,             \* the encoder counter the caller samples (pos_i)
    mPrevTime, mPrevNumPulses, mSpeedFilt, mSpeedPrev, mPpr, mGearRatio,
    ret,             \* the value the last estimateSpeed call returned
    calls,           \* estimateSpeed calls so far
    elapsed,         \* ticks truly elapsed since the reading in mPrevTime
    moved,           \* pulses truly moved since the count in mPrevNumPulses
    sample,          \* readings of the last sample with deltaTimeMicros # 0
    nAccepted,       \* samples with deltaTimeMicros # 0 since construction/reset
    commits,         \* commits of a sample since construction/reset
    pulseSum,        \* sum of pulseDiff over the commits since construction/reset
    last,            \* the last operation: its inputs, locals and pre-state
    first            \* the first estimateSpeed call after construction

vars == <<now, pos, mPrevTime, mPrevNumPulses, mSpeedFilt, mSpeedPrev, mPpr,
          mGearRatio, ret, calls, elapsed, moved, sample, nAccepted, commits,
          pulseSum, last, first>>

Estimator == [prevTime |-> mPrevTime, prevNumPulses |-> mPrevNumPulses,
              speedFilt |-> mSpeedFilt, speedPrev |-> mSpeedPrev,
              ppr |-> mPpr, gearRatio |-> mGearRatio]

\* (ppr, gearRatio) pairs: the test's motor and the two invalid
\* configurations.
Ppr374 == FromInt(FloatBits, 374)
Gear30 == FromInt(FloatBits, 30)
Configs == {<<Ppr374, Gear30>>, <<Zero, Gear30>>, <<Ppr374, Zero>>}

\* Ticks of the clock and pulses of the shaft between two calls.  The caller
\* samples at least once per period of the clock.
ElapsedTicks == {0, 1, MicrosPerSecond, TimeMod - 1}
Movements == {0, 1, 187, 0 - 187, MaxSigned}

NoCall == [op |-> "none", prevOp |-> "none", accepted |-> FALSE,
           currTime |-> 0, pulsesCount |-> 0, deltaTimeMicros |-> 0,
           pulseDiff |-> 0, velocity |-> Zero, elapsed |-> 0, moved |-> 0,
           prevCurrTime |-> 0, prevRet |-> Zero, pre |-> Zero]

\* SpeedEstimator::SpeedEstimator(float ppr, float gearRatio)
Init ==
    /\ now = 0
    /\ pos = 0
    /\ mPrevTime = 0
    /\ mPrevNumPulses = 0
    /\ mSpeedFilt = Zero
    /\ mSpeedPrev = Zero
    /\ \E c \in Configs : mPpr = c[1] /\ mGearRatio = c[2]
    /\ ret = Zero
    /\ calls = 0
    /\ elapsed = 0
    /\ moved = 0
    /\ sample = [t |-> 0, p |-> 0]
    /\ nAccepted = 0
    /\ commits = 0
    /\ pulseSum = 0
    /\ last = NoCall
    /\ first = [seen |-> FALSE, currTime |-> 0, pulsesCount |-> 0,
                ret |-> Zero, post |-> Zero]

\* float SpeedEstimator::estimateSpeed(int pulsesCount), called e ticks and
\* d pulses after the previous call.
estimateSpeed(e, d) ==
    /\ calls < MaxCalls
    /\ LET currTime == WrapUnsigned(now + e)
           pulsesCount == WrapSigned(pos + d)
           deltaTimeMicros == DeltaTimeMicros(currTime, mPrevTime)
           deltaTime == DeltaTime(deltaTimeMicros)
           call == [op |-> "estimateSpeed", prevOp |-> last.op,
                    accepted |-> FALSE, currTime |-> currTime,
                    pulsesCount |-> pulsesCount,
                    deltaTimeMicros |-> deltaTimeMicros,
                    pulseDiff |-> 0, velocity |-> Zero,
                    elapsed |-> elapsed + e, moved |-> moved + d,
                    prevCurrTime |-> now, prevRet |-> ret, pre |-> Estimator]
           fresh == WrapUnsigned(currTime - mPrevTime) # 0
       IN  /\ now' = currTime
           /\ pos' = pulsesCount
           /\ calls' = calls + 1
           /\ sample' = IF fresh THEN [t |-> currTime, p |-> pulsesCount]
                        ELSE sample
           /\ nAccepted' = IF fresh THEN nAccepted + 1 ELSE nAccepted
           /\ UNCHANGED <<mPpr, mGearRatio>>
           /\ IF NoOpSample(deltaTime)
              THEN /\ ret' = mSpeedFilt
                   /\ UNCHANGED <<mPrevTime, mSpeedFilt, mSpeedPrev>>
                   /\ mPrevNumPulses' = DroppedPulses(pulsesCount, mPrevNumPulses)
                   /\ elapsed' = elapsed + e
                   /\ moved' = moved + d
                   /\ commits' = commits
                   /\ pulseSum' = pulseSum
                   /\ last' = call
              ELSE \E pulseDiff \in PulseDiffOutcomes(pulsesCount, mPrevNumPulses) :
                   LET velocity == ToRPM(RawVelocity(pulseDiff, deltaTime),
                                         mPpr, mGearRatio)
                   IN  /\ mPrevNumPulses' = CommitPulses(pulsesCount, mPrevNumPulses)
                       /\ mPrevTime' = CommitTime(currTime, mPrevTime)
                       /\ commits' = commits + 1
                       /\ pulseSum' = pulseSum + pulseDiff
                       /\ mSpeedFilt' = LowPass(mSpeedFilt, velocity, mSpeedPrev)
                       /\ mSpeedPrev' = NextSpeedPrev(velocity, mSpeedPrev)
                       /\ ret' = mSpeedFilt'
                       /\ elapsed' = 0
                       /\ moved' = 0
                       /\ last' = [call EXCEPT !.accepted = TRUE,
                                               !.pulseDiff = pulseDiff,
                                               !.velocity = velocity]
           /\ first' = IF first.seen THEN first
                       ELSE [seen |-> TRUE, currTime |-> currTime,
                             pulsesCount |-> pulsesCount, ret |-> ret',
                             post |-> [prevTime |-> mPrevTime',
                                       prevNumPulses |-> mPrevNumPulses',
                                       speedFilt |-> mSpeedFilt',
                                       speedPrev |-> mSpeedPrev',
                                       ppr |-> mPpr',
                                       gearRatio |-> mGearRatio']]

\* Mutant: reset leaves mSpeedPrev as it is.
reset_keepsSpeedPrev ==
    /\ mPrevTime' = 0
    /\ mPrevNumPulses' = 0
    /\ mSpeedFilt' = Zero
    /\ UNCHANGED <<mSpeedPrev, mPpr, mGearRatio, now, pos, ret, calls, first>>
    /\ elapsed' = now
    /\ moved' = pos
    /\ sample' = [t |-> 0, p |-> 0]
    /\ nAccepted' = 0
    /\ commits' = 0
    /\ pulseSum' = 0
    /\ last' = [NoCall EXCEPT !.op = "reset", !.prevOp = last.op,
                              !.pre = Estimator]

\* Mutant: reset clears the configuration too.
reset_clearsConfig ==
    /\ mPrevTime' = 0
    /\ mPrevNumPulses' = 0
    /\ mSpeedFilt' = Zero
    /\ mSpeedPrev' = Zero
    /\ mPpr' = Zero
    /\ mGearRatio' = Zero
    /\ UNCHANGED <<now, pos, ret, calls, first>>
    /\ elapsed' = now
    /\ moved' = pos
    /\ sample' = [t |-> 0, p |-> 0]
    /\ nAccepted' = 0
    /\ commits' = 0
    /\ pulseSum' = 0
    /\ last' = [NoCall EXCEPT !.op = "reset", !.prevOp = last.op,
                              !.pre = Estimator]

\* void SpeedEstimator::reset()
reset ==
    /\ mPrevTime' = 0
    /\ mPrevNumPulses' = 0
    /\ mSpeedFilt' = Zero
    /\ mSpeedPrev' = Zero
    /\ UNCHANGED <<mPpr, mGearRatio, now, pos, ret, calls, first>>
    /\ elapsed' = now
    /\ moved' = pos
    /\ sample' = [t |-> 0, p |-> 0]
    /\ nAccepted' = 0
    /\ commits' = 0
    /\ pulseSum' = 0
    /\ last' = [NoCall EXCEPT !.op = "reset", !.prevOp = last.op,
                              !.pre = Estimator]

Next ==
    \/ \E e \in ElapsedTicks, d \in Movements : estimateSpeed(e, d)
    \/ reset

Spec == Init /\ [][Next]_vars

(***************************************************************************)
(* Properties.                                                             *)
(***************************************************************************)
IsCall == last.op = "estimateSpeed"
Accepted == IsCall /\ last.accepted
ZeroConfig == IsZero(mPpr) \/ IsZero(mGearRatio)
Positive(x) == (x.k = "fin" /\ x.m > 0) \/ (x.k = "inf" /\ x.m > 0)
Negative(x) == (x.k = "fin" /\ x.m < 0) \/ (x.k = "inf" /\ x.m < 0)

\* C1: a call whose clock reading equals prevTimestamp returns the stored
\* filteredVelocity and changes no field of the estimator, whatever the
\* pulse count; two consecutive calls with the same clock reading return
\* the same value.
ZeroDeltaNoOp ==
    /\ (IsCall /\ last.currTime = last.pre.prevTime) =>
           /\ ret = last.pre.speedFilt
           /\ Estimator = last.pre
    /\ (IsCall /\ last.prevOp = "estimateSpeed"
               /\ last.currTime = last.prevCurrTime) =>
           ret = last.prevRet

ZeroDeltaNoOpWitness ==
    /\ IsCall
    /\ last.prevOp = "estimateSpeed"
    /\ last.currTime = last.pre.prevTime
    /\ last.currTime = last.prevCurrTime
    /\ last.pulsesCount # last.pre.prevNumPulses
    /\ last.pre.speedFilt # Zero
    /\ ret = last.pre.speedFilt

\* C2: on an accepted sample, when the shaft truly moved d pulses since the
\* stored count, with -2^(P-1) < d < 2^(P-1), pulseDiff = d.
PulseWraparound ==
    (Accepted /\ MinSigned < last.moved /\ last.moved <= MaxSigned) =>
        last.pulseDiff = last.moved

\* C3: when e ticks truly elapsed since the stored reading, 0 < e < 2^W,
\* deltaTimeMicros = e, also across a wrap of the clock; a stored reading
\* of MAX followed by a reading of 0 gives 1.
TimeWraparound ==
    /\ (IsCall /\ 0 < last.elapsed /\ last.elapsed < TimeMod) =>
           last.deltaTimeMicros = last.elapsed
    /\ (IsCall /\ last.pre.prevTime = TimeMod - 1 /\ last.currTime = 0) =>
           last.deltaTimeMicros = 1

TimeWraparoundWitness ==
    /\ IsCall
    /\ last.pre.prevTime = TimeMod - 1
    /\ last.currTime = 0
    /\ last.elapsed = 1
    /\ last.deltaTimeMicros = 1

\* C4: a call right after reset(), with the clock reading and the pulse
\* count of the first call after construction, returns what that first call
\* returned and leaves the estimator as that first call left it.
ResetClearsHistory ==
    (IsCall /\ last.prevOp = "reset" /\ first.seen
            /\ last.currTime = first.currTime
            /\ last.pulsesCount = first.pulsesCount) =>
        /\ ret = first.ret
        /\ Estimator = first.post

ResetClearsHistoryWitness ==
    /\ IsCall
    /\ last.prevOp = "reset"
    /\ calls >= 2
    /\ last.currTime = first.currTime
    /\ last.pulsesCount = first.pulsesCount
    /\ ret = first.ret
    /\ ret # Zero

\* C5: an accepted sample with raw velocity v sets and returns
\* filteredVelocity = 0.7265 * filteredVelocity + 0.1367 * v
\* + 0.1367 * previousVelocity and then sets previousVelocity = v; the
\* first accepted sample after the reset state returns 0.1367 * v and a
\* second one with the same v returns
\* 0.7265 * (0.1367 * v) + 0.1367 * v + 0.1367 * v.
Blend(f, v, p) ==
    ToFloat(FAdd(DoubleBits,
                 FAdd(DoubleBits, FMul(DoubleBits, Lit0p7265, ToDouble(f)),
                                  FMul(DoubleBits, Lit0p1367, ToDouble(v))),
                 FMul(DoubleBits, Lit0p1367, ToDouble(p))))

FilterRecurrence ==
    /\ Accepted =>
           /\ mSpeedFilt = Blend(last.pre.speedFilt, last.velocity,
                                 last.pre.speedPrev)
           /\ ret = mSpeedFilt
           /\ mSpeedPrev = last.velocity
    /\ (Accepted /\ nAccepted = 1) =>
           ret = ToFloat(FMul(DoubleBits, Lit0p1367, ToDouble(last.velocity)))
    /\ (Accepted /\ nAccepted = 2 /\ last.pre.speedPrev = last.velocity) =>
           ret = Blend(ToFloat(FMul(DoubleBits, Lit0p1367,
                                    ToDouble(last.velocity))),
                       last.velocity, last.velocity)

FilterRecurrenceWitness ==
    /\ Accepted
    /\ nAccepted = 2
    /\ last.pre.speedPrev = last.velocity
    /\ IsFinite(last.velocity)
    /\ last.velocity # Zero
    /\ mSpeedPrev = last.velocity

\* C6: the raw velocity of an accepted sample is
\* (pulseDiff / deltaTimeSeconds / pulsesPerRevolution) * (1 / gearRatio)
\* * 60; with 374 pulses per revolution and gear ratio 30, 374 pulses in
\* 1,000,000 ticks give exactly 2 and 187 pulses give exactly 1.
Seconds(ticks) ==
    ToFloat(FDiv(DoubleBits, ToDouble(FromInt(FloatBits, ticks)), Lit1e6))

Rpm(pulses, ticks, ppr, gearRatio) ==
    ToFloat(FMul(DoubleBits,
        FMul(DoubleBits,
             ToDouble(FDiv(FloatBits,
                           FDiv(FloatBits, FromInt(FloatBits, pulses),
                                Seconds(ticks)),
                           ppr)),
             FDiv(DoubleBits, Lit1, ToDouble(gearRatio))),
        Lit60))

TestMotor(n) ==
    /\ Accepted
    /\ mPpr = Ppr374
    /\ mGearRatio = Gear30
    /\ last.deltaTimeMicros = MicrosPerSecond
    /\ last.pulseDiff = n

UnitConversion ==
    /\ Accepted =>
           last.velocity = Rpm(last.pulseDiff, last.deltaTimeMicros,
                               last.pre.ppr, last.pre.gearRatio)
    /\ TestMotor(374) => last.velocity = FromInt(FloatBits, 2)
    /\ TestMotor(187) => last.velocity = FromInt(FloatBits, 1)

UnitConversionWitness ==
    /\ TestMotor(374)
    /\ last.velocity = FromInt(FloatBits, 2)

\* C7: with positive pulsesPerRevolution and gearRatio, a sample accepted
\* in the zero-history state with the count moved by d returns a value of
\* the sign of d, and the sample with the count moved by -d after the same
\* time returns the value of equal magnitude and opposite sign.
FromZeroHistory(ticks, pulses, ppr, gearRatio) ==
    LowPass(Zero, ToRPM(RawVelocity(pulses, DeltaTime(ticks)), ppr, gearRatio),
            Zero)

ZeroHistorySample ==
    /\ Accepted
    /\ nAccepted = 1
    /\ last.pre.prevNumPulses = 0
    /\ last.pre.speedFilt = Zero
    /\ last.pre.speedPrev = Zero
    /\ Positive(mPpr)
    /\ Positive(mGearRatio)
    /\ last.pulsesCount # 0
    /\ last.pulsesCount # MinSigned

DirectionSign ==
    ZeroHistorySample =>
        /\ last.pulsesCount > 0 => Positive(ret)
        /\ last.pulsesCount < 0 => Negative(ret)
        /\ ret = Neg(FromZeroHistory(last.deltaTimeMicros,
                                     0 - last.pulsesCount, mPpr, mGearRatio))

DirectionSignWitness ==
    /\ ZeroHistorySample
    /\ last.pulsesCount < 0
    /\ Negative(ret)
    /\ Positive(Neg(ret))

\* C8: no step changes pulsesPerRevolution or gearRatio, and a reset() sets
\* prevTimestamp, prevPulseCount, filteredVelocity and previousVelocity
\* to 0.
ConfigStep ==
    /\ mPpr' = mPpr
    /\ mGearRatio' = mGearRatio
    /\ last'.op = "reset" =>
           /\ mPrevTime' = 0
           /\ mPrevNumPulses' = 0
           /\ mSpeedFilt' = Zero
           /\ mSpeedPrev' = Zero

ConfigImmutable == [][ConfigStep]_vars

ConfigImmutableWitness ==
    /\ last.op = "reset"
    /\ last.pre.speedFilt # Zero
    /\ last.pre.prevTime # 0
    /\ mSpeedFilt = Zero
    /\ mPrevTime = 0
    /\ mPpr = last.pre.ppr
    /\ mPpr = Ppr374
    /\ mGearRatio = Gear30

\* C9: a call is a no-op sample exactly when deltaTimeRaw = 0; any other
\* call commits once, the pulse count and the clock reading together; so
\* prevTimestamp and prevPulseCount are always the readings of the last
\* accepted sample since construction or the last reset, or both 0.
SampleCommit ==
    /\ mPrevTime = sample.t
    /\ mPrevNumPulses = sample.p
    /\ commits = nAccepted
    /\ IsCall =>
           IF WrapUnsigned(last.currTime - last.pre.prevTime) = 0
           THEN /\ ~last.accepted
                /\ mPrevTime = last.pre.prevTime
                /\ mPrevNumPulses = last.pre.prevNumPulses
           ELSE /\ last.accepted
                /\ mPrevTime = last.currTime
                /\ mPrevNumPulses = last.pulsesCount

SampleCommitWitness ==
    /\ Accepted
    /\ last.prevOp = "estimateSpeed"
    /\ mPrevTime = last.currTime
    /\ mPrevTime # last.pre.prevTime
    /\ mPrevNumPulses = last.pulsesCount
    /\ mPrevNumPulses # last.pre.prevNumPulses
    /\ ~last.pre.prevTime = 0

\* C10: with pulsesPerRevolution = 0 or gearRatio = 0, filteredVelocity is
\* not finite once a sample was accepted, and every call returns a value
\* that is not finite, until reset(), which sets filteredVelocity and
\* previousVelocity to 0; reset() is always possible and a call always
\* returns a floating point value.
Poisoning ==
    /\ (ZeroConfig /\ nAccepted > 0) =>
           /\ ~IsFinite(mSpeedFilt)
           /\ IsCall => ~IsFinite(ret)
    /\ (ZeroConfig /\ last.op = "reset") =>
           /\ mSpeedFilt = Zero
           /\ mSpeedPrev = Zero
    /\ ENABLED reset
    /\ ret.k \in {"fin", "inf", "nan"}

PoisoningWitness ==
    /\ ZeroConfig
    /\ IsCall
    /\ ~last.accepted
    /\ nAccepted > 0
    /\ ~IsFinite(ret)
    /\ ~IsFinite(last.pre.speedFilt)

\* C11: the pulseDiff values of the accepted samples since construction or
\* the last reset sum to the stored pulse count modulo 2^P, which is the
\* count passed to the last accepted sample, whatever samples were dropped
\* in between: the pulses a dropped sample saw are in the next pulseDiff.
NoPulsesLost ==
    /\ (pulseSum - mPrevNumPulses) % PulseMod = 0
    /\ mPrevNumPulses = sample.p
    /\ Accepted => (last.pulseDiff - last.moved) % PulseMod = 0

NoPulsesLostWitness ==
    /\ Accepted
    /\ last.prevOp = "estimateSpeed"
    /\ calls = 2
    /\ nAccepted = 1
    /\ last.pulseDiff = 374
    /\ pulseSum = 374
    /\ mPrevNumPulses = 374
=============================================================================
